---- MODULE Spec2Model ----
(***************************************************************************)
(* The tag system of PicoPicoScript: the tag store and its cursor          *)
(* (init_tag, cleanup_tag, load_tag_file, get_tag_file_name, get_tag_line, *)
(* get_current_tag, move_to_next_tag), the tokenizer parse_tag_document    *)
(* and the record builder parse_tag_callback.                              *)
(*                                                                         *)
(* The program is single threaded.  A call of load_tag_file runs from      *)
(* LoadTagFile to the step that returns; while it runs (pc = "parse") no   *)
(* other operation is enabled.  One iteration of the tokenizer's while     *)
(* loop is one step.                                                       *)
(*                                                                         *)
(* A C string is a sequence of one-character strings.  A fixed buffer is   *)
(* the sequence of the characters written from index 0; the bytes past the *)
(* last index written are never read before they are written again, and    *)
(* are not kept.                                                           *)
(***************************************************************************)
EXTENDS Integers, Sequences, FiniteSets, TLC

\* ------------------------------------------------------------------ bounds

\* Calls of load_tag_file that read their file, in one run.
MaxLoads == 2
\* Every text of at most this many characters is a file of TokDocs.
MaxTextLen == 3
\* Every property value of at most this many characters is in a file of TokDocs.
MaxValueLen == 4
\* move_to_next_tag has no upper clamp: the model stops the cursor here.
MaxCursor == 4
\* The capacities of the program, scaled down so that each is reached.
MaxTagName == 2
MaxPropName == 2
MaxPropValue == 2
MaxProps == 2
MaxCommands == 3

TAG_NAME_MAX == MaxTagName
PROP_NAME_MAX == MaxPropName
PROP_VALUE_MAX == MaxPropValue
COMMAND_MAX == MaxCommands
PROP_MAX == MaxProps

\* -------------------------------------------------------------- characters

NUL == "NUL"
LBRACKET == "["
RBRACKET == "]"
SPACE == " "
CR == "\r"
TAB == "\t"
NEWLINE == "\n"
EQUALS == "="
QUOTE == "\""
BACKSLASH == "\\"
LETTER_N == "n"

\* The characters a file is made of in the model.
Alphabet == {LBRACKET, RBRACKET, SPACE, NEWLINE, LETTER_N, EQUALS, QUOTE, BACKSLASH}

\* The file names passed to load_tag_file.
Files == {"a.txt"}

IsBlank(c) == c \in {SPACE, CR, TAB}

IsSpace(c) == c \in {SPACE, CR, TAB, NEWLINE}

LowerCase == {"a", "b", "c", "d", "e", "f", "g", "h", "i", "j", "k", "l", "m",
              "n", "o", "p", "q", "r", "s", "t", "u", "v", "w", "x", "y", "z"}

UpperCase == {"A", "B", "C", "D", "E", "F", "G", "H", "I", "J", "K", "L", "M",
              "N", "O", "P", "Q", "R", "S", "T", "U", "V", "W", "X", "Y", "Z"}

Digits == {"0", "1", "2", "3", "4", "5", "6", "7", "8", "9"}

IsPropNameChar(c) == c \in LowerCase \cup UpperCase \cup Digits \cup {"-", "_"}

\* ------------------------------------------------------------------ state

VARIABLES
    cur_file,    \* the current tag file
    cur_index,   \* the current tag index
    tag,         \* the tag table, slots 0 .. COMMAND_MAX - 1
    tag_size,    \* the tag size
    parser,      \* parse_tag_document: its locals and its static buffers
    doc,         \* the file content (buf) of the current or the last load
    top,         \* the characters of doc consumed so far
    err,         \* load_tag_file's error_message and error_line
    pc,          \* "idle", "parse" (inside load_tag_file) or "aborted"
    ret,         \* the last call that returned, and its value
    ub,          \* the undefined behaviours executed so far
    loads,       \* calls of load_tag_file that read their file
    newlines,    \* newline characters consumed by the current parse
    tag_props,   \* the properties closed since the last '[' was consumed
    events,      \* the tag events of the current parse: the arguments of the
                 \* callback, with tag_props (written) and newlines (nl) then
    moves,       \* move_to_next_tag calls since cur_index was last reset
    last_load,   \* how the last load_tag_file call ended: "none", "running",
                 \* "unreadable", "ok", "failed" (an error of the tokenizer),
                 \* "full" (the tag table), "nomem" (a strdup)
    prev_load    \* how the load_tag_file call before it ended

vars == <<cur_file, cur_index, tag, tag_size, parser, doc, top, err, pc, ret,
          ub, loads, newlines, tag_props, events, moves, last_load, prev_load>>

store == <<cur_file, cur_index, tag, tag_size>>

ghosts == <<newlines, tag_props, events>>

history == <<last_load, prev_load>>

\* ---------------------------------------------------------------- pointers

NULL == [st |-> "null", s |-> <<>>]

\* A string returned by strdup and not freed.
Live(s) == [st |-> "live", s |-> s]

\* A pointer whose string was freed and that still holds the address.
Dangling == [st |-> "freed", s |-> <<>>]

PropSlots == 0 .. (PROP_MAX - 1)

TagSlots == 0 .. (COMMAND_MAX - 1)

\* A slot of the static tag table at program start (zero initialised).
EmptyTag ==
    [tag_name |-> NULL, prop_count |-> 0,
     prop_name |-> [i \in PropSlots |-> NULL],
     prop_value |-> [i \in PropSlots |-> NULL],
     line |-> 0]

\* The states of parse_tag_document.
ST_INIT == "ST_INIT"
ST_TAGNAME == "ST_TAGNAME"
ST_PROPNAME == "ST_PROPNAME"
ST_PROPVALUE_QUOTE == "ST_PROPVALUE_QUOTE"
ST_PROPVALUE_BODY == "ST_PROPVALUE_BODY"

\* The static buffers at program start, and the locals as the function sets them.
InitParser ==
    [state |-> ST_INIT, line |-> 1, len |-> 0, prop_count |-> 0,
     tag_name |-> <<>>,
     prop_name |-> [i \in PropSlots |-> <<>>],
     prop_val |-> [i \in PropSlots |-> <<>>]]

\* The locals at the entry of parse_tag_document; the static buffers persist.
EnterParser(p) ==
    [p EXCEPT !.state = ST_INIT, !.line = 1, !.len = 0, !.prop_count = 0]

NoError == [msg |-> "", line |-> 0]

Returned(op, val) == [op |-> op, val |-> val]

\* No call has returned yet, or a call is running.
NoReturn == Returned("none", 0)

Init ==
    /\ cur_file = ""
    /\ cur_index = 0
    /\ tag = [i \in TagSlots |-> EmptyTag]
    /\ tag_size = 0
    /\ parser = InitParser
    /\ doc = <<>>
    /\ top = 0
    /\ err = NoError
    /\ pc = "idle"
    /\ ret = NoReturn
    /\ ub = {}
    /\ loads = 0
    /\ newlines = 0
    /\ tag_props = <<>>
    /\ events = <<>>
    /\ moves = 0
    /\ last_load = "none"
    /\ prev_load = "none"

\* ------------------------------------------------------ undefined behaviour

\* What a build does at an undefined operation: the process is aborted (a
\* trap, the allocator's double-free check), or it runs on.
Outcomes(kinds) == IF kinds = {} THEN {"continue"} ELSE {"continue", "abort"}

\* -------------------------------------------------------------- cleanup_tag

\* One iteration of cleanup_tag's outer loop on slot i: the tag name is freed
\* and the pointer kept; the inner loop indexes the property arrays with i,
\* PROP_MAX times; an index outside the arrays is left to CleanupUB.
FreeTag(t, i) ==
    LET named == [t EXCEPT !.tag_name = IF @.st = "null" THEN NULL ELSE Dangling]
    IN  IF i \in PropSlots
        THEN [named EXCEPT !.prop_name[i] = NULL, !.prop_value[i] = NULL]
        ELSE named

\* The undefined operations of a cleanup_tag call: free() of a tag name that
\* an earlier call freed, and prop_name[i], prop_value[i] with i >= PROP_MAX.
CleanupUB ==
    (IF \E i \in TagSlots : i < tag_size /\ tag[i].tag_name.st = "freed"
     THEN {"double_free"} ELSE {})
    \cup
    (IF \E i \in TagSlots : i < tag_size /\ i >= PROP_MAX
     THEN {"prop_index_out_of_range"} ELSE {})

\* The cursor after the reset, as a mutant leaves it: not reset.
CleanupCursorKept == cur_index

\* cur_index = 0;
CleanupCursor == 0

\* What cleanup_tag leaves: cursor, file name and tag table.  tag_size is
\* not assigned.
CleanupEffect ==
    [cur_index |-> CleanupCursor,
     cur_file |-> "",
     tag |-> [i \in TagSlots |->
                 IF i < tag_size THEN FreeTag(tag[i], i) ELSE tag[i]]]

\* The call of cleanup_tag inside an operation, with the outcome o of its
\* undefined operations; cur_file is the caller's to assign next.
Cleanup(o) ==
    /\ cur_index' = CleanupEffect.cur_index
    /\ moves' = 0
    /\ tag' = IF o = "abort" THEN tag ELSE CleanupEffect.tag
    /\ ub' = ub \cup CleanupUB
    /\ UNCHANGED tag_size

cleanup_tag ==
    /\ pc = "idle"
    /\ \E o \in Outcomes(CleanupUB) :
          /\ Cleanup(o)
          /\ cur_file' = CleanupEffect.cur_file
          /\ pc' = IF o = "abort" THEN "aborted" ELSE "idle"
          /\ ret' = IF o = "abort" THEN ret ELSE Returned("cleanup_tag", 0)
    /\ UNCHANGED <<parser, doc, top, err, loads, ghosts, history>>

init_tag ==
    /\ pc = "idle"
    /\ \E o \in Outcomes(CleanupUB) :
          /\ Cleanup(o)
          /\ cur_file' = CleanupEffect.cur_file
          /\ pc' = IF o = "abort" THEN "aborted" ELSE "idle"
          /\ ret' = IF o = "abort" THEN ret ELSE Returned("init_tag", 0)
    /\ UNCHANGED <<parser, doc, top, err, loads, ghosts, history>>

\* ------------------------------------------------------------ load_tag_file

\* load_file failed: load_tag_file returns false before anything else.
LoadUnreadable ==
    /\ pc = "idle"
    /\ \E file \in Files : ret' = Returned("load_tag_file", 0)
    /\ last_load' = "unreadable"
    /\ prev_load' = last_load
    /\ UNCHANGED <<store, parser, doc, top, err, pc, ub, loads, ghosts, moves>>

\* load_file succeeded and gave the text d: the existing commands are
\* destroyed, the file name is saved and parse_tag_document is entered.
LoadTagFile(docs, max) ==
    /\ pc = "idle"
    /\ loads < max
    /\ \E file \in Files, d \in docs, o \in Outcomes(CleanupUB) :
          /\ Cleanup(o)
          /\ cur_file' = IF o = "abort" THEN CleanupEffect.cur_file ELSE file
          /\ pc' = IF o = "abort" THEN "aborted" ELSE "parse"
          /\ doc' = d
    /\ top' = 0
    /\ loads' = loads + 1
    /\ parser' = EnterParser(parser)
    /\ err' = NoError
    /\ ret' = NoReturn
    /\ newlines' = 0
    /\ tag_props' = <<>>
    /\ events' = <<>>
    /\ last_load' = "running"
    /\ prev_load' = last_load

\* ------------------------------------------------------------------ cursor

get_tag_file_name ==
    /\ pc = "idle"
    /\ ret' = Returned("get_tag_file_name", 0)
    /\ UNCHANGED <<store, parser, doc, top, err, pc, ub, loads, ghosts, moves,
                   history>>

\* The line of the current tag, or -1.
TagLine == IF cur_index >= tag_size THEN -1 ELSE tag[cur_index].line

get_tag_line ==
    /\ pc = "idle"
    /\ ret' = Returned("get_tag_line", TagLine)
    /\ UNCHANGED <<store, parser, doc, top, err, pc, ub, loads, ghosts, moves,
                   history>>

\* The slot &tag[cur_index] as its index, or -1 for NULL.
CurrentTag == IF cur_index >= tag_size THEN -1 ELSE cur_index

\* get_current_tag as a mutant has it: it returns the tag and advances the
\* cursor.
GetCurrentTagAndMove ==
    /\ pc = "idle"
    /\ cur_index < MaxCursor
    /\ ret' = Returned("get_current_tag", CurrentTag)
    /\ cur_index' = cur_index + 1
    /\ moves' = moves + 1
    /\ UNCHANGED <<cur_file, tag, tag_size, parser, doc, top, err, pc, ub, loads,
                   ghosts, history>>

get_current_tag ==
    /\ pc = "idle"
    /\ ret' = Returned("get_current_tag", CurrentTag)
    /\ UNCHANGED <<store, parser, doc, top, err, pc, ub, loads, ghosts, moves,
                   history>>

\* The cursor after a move, as a mutant computes it: clamped to the store.
NextIndexClamped(i) == IF i >= tag_size THEN i ELSE i + 1

\* cur_index++;
NextIndex(i) == i + 1

move_to_next_tag ==
    /\ pc = "idle"
    /\ cur_index < MaxCursor
    /\ cur_index' = NextIndex(cur_index)
    /\ moves' = moves + 1
    /\ ret' = Returned("move_to_next_tag", 0)
    /\ UNCHANGED <<cur_file, tag, tag_size, parser, doc, top, err, pc, ub, loads,
                   ghosts, history>>

\* -------------------------------------------------------- parse_tag_callback

\* The k-th strdup of a callback runs when no earlier one failed.
Reached(fail_at, k) == fail_at = 0 \/ fail_at >= k

\* What the k-th strdup returns for the string s.
Strdup(fail_at, k, s) == IF fail_at = k THEN NULL ELSE Live(s)

\* The record builder on one tag event.  fail_at = 0: every strdup succeeds;
\* fail_at = k: the k-th strdup returns NULL (1: the tag name, 2 + 2i: the
\* name of property i, 3 + 2i: its value).  The slot is taken, and the tag
\* size incremented, before the strings are copied.
parse_tag_callback(name, props, pn, pv, ln, fail_at) ==
    IF tag_size >= COMMAND_MAX
    THEN [tag |-> tag, tag_size |-> tag_size, ok |-> FALSE]
    ELSE LET t == tag[tag_size]
             built ==
                 [tag_name |-> Strdup(fail_at, 1, name),
                  prop_count |-> props,
                  prop_name |-> [i \in PropSlots |->
                      IF i < props /\ Reached(fail_at, 2 + 2 * i)
                      THEN Strdup(fail_at, 2 + 2 * i, pn[i])
                      ELSE t.prop_name[i]],
                  prop_value |-> [i \in PropSlots |->
                      IF i < props /\ Reached(fail_at, 3 + 2 * i)
                      THEN Strdup(fail_at, 3 + 2 * i, pv[i])
                      ELSE t.prop_value[i]],
                  line |-> IF fail_at = 0 THEN ln ELSE t.line]
         IN  [tag |-> [tag EXCEPT ![tag_size] = built],
              tag_size |-> tag_size + 1,
              ok |-> fail_at = 0]

\* ------------------------------------------------------- parse_tag_document

\* buf[i] = c: the buffer holds what was written up to index i.
Put(buf, i, c) == SubSeq(buf, 1, i) \o <<c>>

\* buf[i] = '\0': the string ends at index i.
Terminate(buf, i) == SubSeq(buf, 1, i)

\* What one iteration of the loop does: p, the locals and buffers after it;
\* out, how it ends ("continue", "error": return false with msg at p.line,
\* "callback": the callback is called with props properties and, when it
\* fails, msg is the error); adv, 1 when an escape consumed *top as well;
\* oob, whether it wrote at an index outside the buffer; diag, whether it
\* set the error message and line without returning.
Continue(p) ==
    [p |-> p, out |-> "continue", msg |-> "", props |-> 0, adv |-> 0,
     oob |-> FALSE, diag |-> FALSE]

Error(p, msg) == [Continue(p) EXCEPT !.out = "error", !.msg = msg]

Callback(p, props, msg) ==
    [Continue(p) EXCEPT !.out = "callback", !.props = props, !.msg = msg]

\* The invalid character of a property name, as a mutant treats it: fatal, as
\* in ST_INIT.
DiagnoseFatal(p) == Error(p, "Invalid character.")

\* *error_msg = ...; *error_line = line; continue;
Diagnose(p) ==
    [Continue(p) EXCEPT !.diag = TRUE, !.msg = "Invalid character."]

\* An escape that consumes nothing after the backslash, as a mutant has it.
ConsumedNothing(r) == r

\* top++ in an escape: the character after the backslash is consumed too.
Consumed(r) == [r EXCEPT !.adv = 1]

\* The step wrote at index i of a buffer of cap bytes.
WroteAt(r, i, cap) == [r EXCEPT !.oob = @ \/ i >= cap]

StepInit(p, c) ==
    IF c = LBRACKET
    THEN Continue([p EXCEPT !.state = ST_TAGNAME, !.len = 0])
    ELSE IF c = NEWLINE
    THEN Continue([p EXCEPT !.line = @ + 1])
    ELSE IF IsBlank(c)
    THEN Continue(p)
    ELSE Error(p, "Invalid character.")

\* The tag name buffer takes no more characters, as a mutant tests it: one
\* character late.
TagNameFullLate(len) == len > TAG_NAME_MAX

\* len >= TAG_NAME_MAX
TagNameFull(len) == len >= TAG_NAME_MAX

StepTagName(p, c) ==
    IF p.len = 0 /\ IsSpace(c)
    THEN Continue(p)
    ELSE LET q == IF c = NEWLINE THEN [p EXCEPT !.line = @ + 1] ELSE p
         IN  IF IsSpace(c)
             THEN WroteAt(Continue([q EXCEPT !.tag_name = Terminate(@, q.len),
                                             !.state = ST_PROPNAME,
                                             !.len = 0]),
                          q.len, TAG_NAME_MAX)
             ELSE IF c = RBRACKET
             THEN WroteAt(Callback([q EXCEPT !.tag_name = Terminate(@, q.len)],
                                   0, "Too many properties."),
                          q.len, TAG_NAME_MAX)
             ELSE IF TagNameFull(q.len)
             THEN Error(q, "Tag name too long.")
             ELSE Continue([q EXCEPT !.tag_name = Put(@, q.len, c),
                                     !.len = @ + 1])

StepPropName(p, c) ==
    IF p.prop_count = PROP_MAX
    THEN Error(p, "Too many properties.")
    ELSE IF p.len = 0 /\ c = SPACE
    THEN Continue(p)
    ELSE IF p.len = 0 /\ c = RBRACKET
    THEN Callback(p, p.prop_count, "Internal error.")
    ELSE LET q == IF p.len = 0 /\ c = NEWLINE
                  THEN [p EXCEPT !.line = @ + 1] ELSE p
         IN  IF q.len = 0 /\ IsSpace(c)
             THEN Continue(q)
             ELSE IF q.len > 0 /\ c = EQUALS
             THEN WroteAt(Continue([q EXCEPT
                              !.prop_name[q.prop_count] = Terminate(@, q.len),
                              !.state = ST_PROPVALUE_QUOTE,
                              !.len = 0]),
                          q.len, PROP_NAME_MAX)
             ELSE IF q.len >= PROP_NAME_MAX
             THEN Error(q, "Property name too long.")
             ELSE IF IsPropNameChar(c)
             THEN Continue([q EXCEPT
                      !.prop_name[q.prop_count] = Put(@, q.len, c),
                      !.len = @ + 1])
             ELSE Diagnose(q)

\* ST_PROPVALUE_QUOTE as a mutant has it: a character that is neither
\* whitespace nor the quote is an error.
StepPropValueQuoteStrict(p, c) ==
    LET q == IF c = NEWLINE THEN [p EXCEPT !.line = @ + 1] ELSE p
    IN  IF IsSpace(c)
        THEN Continue(q)
        ELSE IF c = QUOTE
        THEN Continue([q EXCEPT !.state = ST_PROPVALUE_BODY, !.len = 0])
        ELSE Error(q, "Invalid character.")

StepPropValueQuote(p, c) ==
    LET q == IF c = NEWLINE THEN [p EXCEPT !.line = @ + 1] ELSE p
    IN  IF IsSpace(c)
        THEN Continue(q)
        ELSE IF c = QUOTE
        THEN Continue([q EXCEPT !.state = ST_PROPVALUE_BODY, !.len = 0])
        ELSE Continue(q)

\* prop_val[prop_count][len] = c; len++;  with no check of len.
Escape(p, c) ==
    WroteAt(Continue([p EXCEPT !.prop_val[p.prop_count] = Put(@, p.len, c),
                               !.len = @ + 1]),
            p.len, PROP_VALUE_MAX)

\* nx is *top, the character after c.
StepPropValueBody(p, c, nx) ==
    IF c = BACKSLASH
    THEN IF nx = QUOTE THEN Consumed(Escape(p, QUOTE))
         ELSE IF nx = LETTER_N THEN Consumed(Escape(p, NEWLINE))
         ELSE IF nx = BACKSLASH THEN Consumed(Escape(p, BACKSLASH))
         ELSE Escape(p, BACKSLASH)
    ELSE IF c = QUOTE
    THEN WroteAt(Continue([p EXCEPT
                     !.prop_val[p.prop_count] = Terminate(@, p.len),
                     !.prop_count = @ + 1,
                     !.state = ST_PROPNAME,
                     !.len = 0]),
                 p.len, PROP_VALUE_MAX)
    ELSE IF p.len >= PROP_VALUE_MAX
    THEN Error(p, "Property value too long.")
    ELSE Continue([p EXCEPT !.prop_val[p.prop_count] = Put(@, p.len, c),
                            !.len = @ + 1])

\* ------------------------------------------------------- the tokenizer loop

\* doc[i], 0-based, with the terminating '\0'.
CharAt(i) == IF i < Len(doc) THEN doc[i + 1] ELSE NUL

\* The properties a callback is given, as (name, value) pairs in order.
Pairs(p, props) ==
    [i \in 1 .. props |-> <<p.prop_name[i - 1], p.prop_val[i - 1]>>]

\* The end of the iteration that consumed c = *top++ and computed r: the
\* callback is called where the iteration calls it; a failure returns from
\* parse_tag_document and from load_tag_file (log_error, free(buf), return
\* false).
Consume(r, c) ==
    \E o \in Outcomes(IF r.oob THEN {"buffer_overflow"} ELSE {}) :
    \E fail_at \in (IF r.out = "callback" /\ o = "continue"
                    THEN 0 .. (2 * r.props + 1) ELSE {0}) :
      LET called == r.out = "callback" /\ o = "continue"
          cb == parse_tag_callback(r.p.tag_name, r.props, r.p.prop_name,
                                   r.p.prop_val, r.p.line, fail_at)
          failed == r.out = "error" \/ (called /\ ~cb.ok)
          ev == [name |-> r.p.tag_name, props |-> Pairs(r.p, r.props),
                 line |-> r.p.line, written |-> tag_props, nl |-> newlines]
          closed == r.p.prop_count = parser.prop_count + 1
          how == IF r.out = "error" THEN "failed"
                 ELSE IF tag_size >= COMMAND_MAX THEN "full" ELSE "nomem"
      IN  /\ ub' = ub \cup (IF r.oob THEN {"buffer_overflow"} ELSE {})
          /\ newlines' = newlines + (IF c = NEWLINE THEN 1 ELSE 0)
          /\ IF o = "abort"
             THEN /\ pc' = "aborted"
                  /\ top' = top + 1 + r.adv
                  /\ UNCHANGED <<parser, tag, tag_size, events, tag_props,
                                 err, ret, history>>
             ELSE /\ parser' = IF called /\ cb.ok
                               THEN [r.p EXCEPT !.state = ST_INIT] ELSE r.p
                  /\ tag' = IF called THEN cb.tag ELSE tag
                  /\ tag_size' = IF called THEN cb.tag_size ELSE tag_size
                  /\ events' = IF called THEN Append(events, ev) ELSE events
                  /\ tag_props' =
                        IF parser.state = ST_INIT /\ c = LBRACKET THEN <<>>
                        ELSE IF closed
                        THEN Append(tag_props,
                                    <<r.p.prop_name[parser.prop_count],
                                      r.p.prop_val[parser.prop_count]>>)
                        ELSE tag_props
                  /\ err' = IF failed \/ r.diag
                            THEN [msg |-> r.msg, line |-> r.p.line] ELSE err
                  /\ pc' = IF failed THEN "idle" ELSE "parse"
                  /\ ret' = IF failed THEN Returned("load_tag_file", 0) ELSE ret
                  /\ last_load' = IF failed THEN how ELSE last_load
                  /\ top' = top + 1 + r.adv
          /\ UNCHANGED <<cur_file, cur_index, moves, loads, doc, prev_load>>

ParseInit ==
    /\ pc = "parse"
    /\ CharAt(top) # NUL
    /\ parser.state = ST_INIT
    /\ Consume(StepInit(parser, CharAt(top)), CharAt(top))

ParseTagName ==
    /\ pc = "parse"
    /\ CharAt(top) # NUL
    /\ parser.state = ST_TAGNAME
    /\ Consume(StepTagName(parser, CharAt(top)), CharAt(top))

ParsePropName ==
    /\ pc = "parse"
    /\ CharAt(top) # NUL
    /\ parser.state = ST_PROPNAME
    /\ Consume(StepPropName(parser, CharAt(top)), CharAt(top))

ParsePropValueQuote ==
    /\ pc = "parse"
    /\ CharAt(top) # NUL
    /\ parser.state = ST_PROPVALUE_QUOTE
    /\ Consume(StepPropValueQuote(parser, CharAt(top)), CharAt(top))

ParsePropValueBody ==
    /\ pc = "parse"
    /\ CharAt(top) # NUL
    /\ parser.state = ST_PROPVALUE_BODY
    /\ Consume(StepPropValueBody(parser, CharAt(top), CharAt(top + 1)),
               CharAt(top))

\* The end of input is accepted, as a mutant has it: in any state but inside
\* a property.
AcceptingOutsideProperty(state) == state \in {ST_INIT, ST_TAGNAME}

\* if (state == ST_INIT) return true;
Accepting(state) == state = ST_INIT

\* *top == '\0': the loop ends, parse_tag_document returns and load_tag_file
\* frees buf and returns.
ParseEnd ==
    /\ pc = "parse"
    /\ CharAt(top) = NUL
    /\ pc' = "idle"
    /\ IF Accepting(parser.state)
       THEN /\ ret' = Returned("load_tag_file", 1)
            /\ err' = err
            /\ last_load' = "ok"
       ELSE /\ ret' = Returned("load_tag_file", 0)
            /\ err' = [msg |-> "Unexpected EOF", line |-> parser.line]
            /\ last_load' = "failed"
    /\ UNCHANGED <<store, parser, doc, top, ub, loads, ghosts, moves, prev_load>>

\* ----------------------------------------------------------------- the files

RECURSIVE Repeat(_, _)
\* The text s, k times.
Repeat(s, k) == IF k <= 0 THEN <<>> ELSE s \o Repeat(s, k - 1)

\* Every text over the characters A of at most n characters.
Texts(A, n) == UNION {[1 .. k -> A] : k \in 0 .. n}

NAME == <<LETTER_N>>

\* [name]
TagText(name) == <<LBRACKET>> \o name \o <<RBRACKET>>

\* name="value"
PropText(name, value) == name \o <<EQUALS, QUOTE>> \o value \o <<QUOTE>>

\* [n n="v" n="v" ...] with k properties
TagWithProps(k, v) ==
    <<LBRACKET>> \o NAME \o Repeat(<<SPACE>> \o PropText(NAME, v), k)
        \o <<RBRACKET>>

\* The files of the runs that load several files in turn.
StoreDocs ==
    { <<>>,
      TagText(NAME),
      Repeat(TagText(NAME), 2),
      Repeat(TagText(NAME), COMMAND_MAX + 1),
      <<NEWLINE>> \o TagText(NAME) \o TagWithProps(1, NAME),
      <<LBRACKET>> \o NAME }

\* s with the character c put in before its character i + 1.
Insert(s, i, c) == SubSeq(s, 1, i) \o <<c>> \o SubSeq(s, i + 1, Len(s))

\* The characters of the property values of ValueDocs.
ValueAlphabet == {LETTER_N, EQUALS, QUOTE, BACKSLASH, NEWLINE}

\* [n n="v"] for every value text v of at most MaxValueLen characters.
ValueDocs == {TagWithProps(1, v) : v \in Texts(ValueAlphabet, MaxValueLen)}

\* Tags of 0 .. PROP_MAX + 1 properties, alone and followed by a second tag.
PropDocs ==
    {TagWithProps(k, v) : k \in 0 .. (PROP_MAX + 1), v \in {<<>>, NAME}}
    \cup
    {TagWithProps(k, NAME) \o TagWithProps(j, <<EQUALS>>) :
        k \in 0 .. PROP_MAX, j \in 0 .. PROP_MAX}

\* 0 .. COMMAND_MAX + 1 tags.
TagDocs == {Repeat(TagText(NAME), k) : k \in 0 .. (COMMAND_MAX + 1)}

\* Tag and property names of up to one character more than the buffers hold.
NameDocs ==
    {TagText(Repeat(NAME, k)) : k \in 0 .. (TAG_NAME_MAX + 1)}
    \cup
    {<<LBRACKET>> \o Repeat(NAME, k) \o <<SPACE, RBRACKET>> :
        k \in 0 .. (TAG_NAME_MAX + 1)}
    \cup
    {<<LBRACKET>> \o NAME \o <<SPACE>> \o PropText(Repeat(NAME, k), NAME)
        \o <<RBRACKET>> : k \in 0 .. (PROP_NAME_MAX + 1)}

\* A tag with a property and a tag without, in both orders.
Templates ==
    {TagText(NAME) \o TagWithProps(1, NAME),
     TagWithProps(1, NAME) \o TagText(NAME)}

\* The templates with any one character put in at any place: every
\* character in every state of the tokenizer.
InsertDocs ==
    UNION {{Insert(t, i, c) : i \in 0 .. Len(t), c \in Alphabet} : t \in Templates}

\* The files of the runs that load one file.
TokDocs ==
    Texts(Alphabet, MaxTextLen) \cup ValueDocs \cup PropDocs \cup TagDocs
        \cup NameDocs \cup InsertDocs

Next ==
    \/ init_tag
    \/ cleanup_tag
    \/ LoadUnreadable
    \/ LoadTagFile(StoreDocs, MaxLoads)
    \/ get_tag_file_name
    \/ get_tag_line
    \/ get_current_tag
    \/ move_to_next_tag
    \/ ParseInit
    \/ ParseTagName
    \/ ParsePropName
    \/ ParsePropValueQuote
    \/ ParsePropValueBody
    \/ ParseEnd

Spec == Init /\ [][Next]_vars

\* One call of load_tag_file, on any file of TokDocs, from the program's
\* initial state.
NextTok ==
    \/ LoadTagFile(TokDocs, 1)
    \/ ParseInit
    \/ ParseTagName
    \/ ParsePropName
    \/ ParsePropValueQuote
    \/ ParsePropValueBody
    \/ ParseEnd

SpecTok == Init /\ [][NextTok]_vars

\* ------------------------------------------------------------------ claims

\* A slot of the tag table holds the event ev: its name, its properties in
\* order and its line, each string a live copy.
RecordIs(t, ev) ==
    /\ t.tag_name = Live(ev.name)
    /\ t.prop_count = Len(ev.props)
    /\ \A i \in 1 .. Len(ev.props) :
          /\ (i - 1) \in PropSlots
          /\ t.prop_name[i - 1] = Live(ev.props[i][1])
          /\ t.prop_value[i - 1] = Live(ev.props[i][2])
    /\ t.line = ev.line

\* The store holds exactly the records of the events evs, in order.
StoreHolds(evs) ==
    /\ tag_size = Len(evs)
    /\ \A k \in 1 .. Len(evs) :
          (k - 1) \in TagSlots /\ RecordIs(tag[k - 1], evs[k])

\* load_tag_file has just returned, having read its file.
LoadReturned == ret.op = "load_tag_file" /\ last_load # "unreadable"

\* C1: replace-on-load.  After a successful load of A followed by a
\* successful load of B, the store holds exactly B's records: its length is
\* the number of B's tags and each record's name, properties and line are
\* those of B's tag, with no record of A left.
C1_ReplaceOnLoad ==
    (LoadReturned /\ ret.val = 1 /\ prev_load = "ok") => StoreHolds(events)

\* C2: the tag event of every tag carries exactly the properties written
\* between that tag's own brackets, in the order written, duplicates kept,
\* and none of an earlier tag.
C2_EventCarriesOwnProperties ==
    \A k \in 1 .. Len(events) : events[k].props = events[k].written

\* C3: the line counter is 1 plus the number of newline characters consumed,
\* in every state of the tokenizer, and so are the line of every tag event
\* and the line of an error.
C3_LineCountsNewlines ==
    /\ parser.line = 1 + newlines
    /\ \A k \in 1 .. Len(events) : events[k].line = 1 + events[k].nl
    /\ (LoadReturned /\ ret.val = 0) => err.line = 1 + newlines

\* C4: the cursor walk.  After a successful load of a document with N
\* records, the call of get_current_tag after k < N moves returns the k-th
\* record of the document, and after N moves get_current_tag returns NULL
\* and get_tag_line returns -1.
C4_CursorWalk ==
    (last_load = "ok" /\ cur_file # "") =>
        LET N == Len(events)
        IN  /\ (ret.op = "get_current_tag" /\ moves < N) =>
                   /\ ret.val = moves
                   /\ ret.val \in TagSlots
                   /\ RecordIs(tag[moves], events[moves + 1])
            /\ (ret.op = "get_current_tag" /\ moves = N) => ret.val = -1
            /\ (ret.op = "get_tag_line" /\ moves = N) => ret.val = -1

\* C5, as claimed: in every reachable state 0 <= cur_index <= tag_size.
C5_CursorWithinStore == 0 <= cur_index /\ cur_index <= tag_size

\* C5, amended: in every reachable state the cursor is at least 0 and is the
\* number of move_to_next_tag calls since the last reset; it is not clamped
\* to the store, and a get_current_tag at or past tag_size returns NULL, a
\* get_tag_line -1.
C5_CursorCountsMoves ==
    /\ 0 <= cur_index
    /\ cur_index = moves
    /\ (ret.op = "get_current_tag" /\ cur_index >= tag_size) => ret.val = -1
    /\ (ret.op = "get_tag_line" /\ cur_index >= tag_size) => ret.val = -1

\* C5, witness: the cursor has moved past the store and get_current_tag has
\* returned NULL there.
C5_CursorPastStore ==
    /\ cur_index > tag_size
    /\ tag_size > 0
    /\ ret = Returned("get_current_tag", -1)

SmallDocs == {Repeat(TagText(NAME), k) : k \in 0 .. COMMAND_MAX}

\* C7: a load of a document of more than COMMAND_MAX tags returns failure,
\* and the next load of a well-formed document of at most COMMAND_MAX tags
\* succeeds and leaves the store holding exactly that document's records.
C7_LoadAfterOverflow ==
    /\ (LoadReturned /\ doc = Repeat(TagText(NAME), COMMAND_MAX + 1)) =>
           ret.val = 0
    /\ (LoadReturned /\ prev_load = "full" /\ doc \in SmallDocs) =>
           (ret.val = 1 /\ StoreHolds(events))

\* C8: no tag event has an empty name, and no record of the store has one.
C8_NamesNotEmpty ==
    /\ \A k \in 1 .. Len(events) : events[k].name # <<>>
    /\ \A i \in TagSlots :
          (i < tag_size /\ tag[i].tag_name.st = "live") =>
              tag[i].tag_name.s # <<>>

\* C9: the tokenizer's "Too many properties." is raised only for a tag of
\* more than PROP_MAX properties, and a tag of exactly PROP_MAX properties
\* followed by ']' is accepted and emitted with its PROP_MAX properties.
C9_PropertyLimitExact ==
    /\ (LoadReturned /\ ret.val = 0 /\ last_load = "failed"
            /\ err.msg = "Too many properties.") =>
           Len(tag_props) > PROP_MAX
    /\ (LoadReturned /\ doc = TagWithProps(PROP_MAX, NAME)) =>
           /\ ret.val = 1
           /\ Len(events) = 1
           /\ Len(events[1].props) = PROP_MAX

\* C10: the decoded length of a property value in the value buffer never
\* exceeds PROP_VALUE_MAX, and no tag event carries a longer value: a longer
\* value fails the parse.
C10_ValueWithinMax ==
    /\ \A i \in PropSlots : Len(parser.prop_val[i]) <= PROP_VALUE_MAX
    /\ parser.state = ST_PROPVALUE_BODY => parser.len <= PROP_VALUE_MAX
    /\ \A k \in 1 .. Len(events) : \A i \in 1 .. Len(events[k].props) :
          Len(events[k].props[i][2]) <= PROP_VALUE_MAX

\* The tokenizer is about to consume the character c of a tag name, c not a
\* delimiter of the name.
AtNameChar ==
    /\ pc = "parse"
    /\ parser.state = ST_TAGNAME
    /\ CharAt(top) # NUL
    /\ ~IsSpace(CharAt(top))
    /\ CharAt(top) # RBRACKET

\* C11: a tag whose name is longer than TAG_NAME_MAX characters makes the
\* load fail with "Tag name too long.", and no record is appended for it:
\* the step that consumes a name character with TAG_NAME_MAX characters
\* already in the buffer returns failure from load_tag_file with that error
\* at the current line, and leaves the store and the events as they were.
C11_LongTagNameFails ==
    [][(AtNameChar /\ parser.len >= TAG_NAME_MAX) =>
          /\ ret' = Returned("load_tag_file", 0)
          /\ pc' = "idle"
          /\ err' = [msg |-> "Tag name too long.", line |-> parser.line]
          /\ tag_size' = tag_size
          /\ tag' = tag
          /\ events' = events]_vars

\* C11, witness: a load has failed with "Tag name too long." on a name of
\* TAG_NAME_MAX + 1 characters, and the store is empty.
C11_LongTagNameFailed ==
    /\ ret = Returned("load_tag_file", 0)
    /\ err.msg = "Tag name too long."
    /\ doc = TagText(Repeat(NAME, TAG_NAME_MAX + 1))
    /\ parser.len = TAG_NAME_MAX
    /\ tag_size = 0
    /\ events = <<>>

\* The tokenizer is about to consume a character of a property value body.
AtValueChar ==
    /\ pc = "parse"
    /\ parser.state = ST_PROPVALUE_BODY
    /\ CharAt(top) # NUL

\* The character an escape appends, by the character nx after the backslash.
Decoded(nx) ==
    IF nx = QUOTE THEN QUOTE ELSE IF nx = LETTER_N THEN NEWLINE ELSE BACKSLASH

\* The characters an escape consumes, the backslash included.
EscapeLength(nx) == IF nx \in {QUOTE, LETTER_N, BACKSLASH} THEN 2 ELSE 1

\* C12: escape decoding in a property value body.  A backslash followed by a
\* quote appends a quote, by 'n' a newline, by a backslash one backslash, and
\* consumes both characters; a backslash followed by any other character
\* appends the backslash and consumes it alone, so that the next character
\* is an ordinary body character; an ordinary character is appended as it
\* is; an unescaped quote closes the value with the characters appended so
\* far, and no other character leaves the value body.  (Stated for every
\* step that writes inside the value buffer.)
C12_EscapeDecoding ==
    [][AtValueChar =>
          LET c == CharAt(top)
              nx == CharAt(top + 1)
              k == parser.prop_count
              len == parser.len
              kept == SubSeq(parser.prop_val[k], 1, len)
              fits == len < PROP_VALUE_MAX
          IN  /\ c # QUOTE => parser'.state = ST_PROPVALUE_BODY
              /\ (c = BACKSLASH /\ fits) =>
                    /\ parser'.prop_val[k] = Append(kept, Decoded(nx))
                    /\ parser'.len = len + 1
                    /\ top' = top + EscapeLength(nx)
                    /\ pc' = "parse"
              /\ (c \notin {BACKSLASH, QUOTE} /\ fits) =>
                    /\ parser'.prop_val[k] = Append(kept, c)
                    /\ parser'.len = len + 1
                    /\ top' = top + 1
                    /\ pc' = "parse"
              /\ (c = QUOTE /\ fits) =>
                    /\ parser'.state = ST_PROPNAME
                    /\ parser'.prop_val[k] = kept
                    /\ parser'.prop_count = k + 1
                    /\ tag_props' = Append(tag_props, <<parser.prop_name[k], kept>>)
                    /\ top' = top + 1]_vars

\* C12, witness: the start \"\= of a value body has been decoded to a quote
\* and a backslash, each write inside the buffer, and the '=' after the
\* backslash is the next character to consume.
C12_EscapesDecoded ==
    /\ pc = "parse"
    /\ parser.state = ST_PROPVALUE_BODY
    /\ parser.len = 2
    /\ SubSeq(parser.prop_val[0], 1, 2) = <<QUOTE, BACKSLASH>>
    /\ CharAt(top - 1) = BACKSLASH
    /\ CharAt(top) = EQUALS
    /\ ub = {}

\* C13: end-of-input acceptance.  When the input ends with the tokenizer in
\* ST_INIT the parse, and the load, return success; when it ends in any
\* other state they return failure with "Unexpected EOF" at the tokenizer's
\* current line; and a load returns success in no other way.
C13_AcceptsOnlyInInit ==
    [][pc = "parse" =>
          /\ (CharAt(top) = NUL /\ parser.state = ST_INIT) =>
                (ret' = Returned("load_tag_file", 1) /\ pc' = "idle")
          /\ (CharAt(top) = NUL /\ parser.state # ST_INIT) =>
                /\ ret' = Returned("load_tag_file", 0)
                /\ pc' = "idle"
                /\ err' = [msg |-> "Unexpected EOF", line |-> parser.line]
          /\ ret' = Returned("load_tag_file", 1) =>
                (CharAt(top) = NUL /\ parser.state = ST_INIT)]_vars

\* C13, witness: the unterminated tag [n, after a newline, has failed with
\* "Unexpected EOF" at line 2, the tokenizer in ST_TAGNAME.
C13_UnterminatedTagFailed ==
    /\ doc = <<NEWLINE, LBRACKET>> \o NAME
    /\ ret = Returned("load_tag_file", 0)
    /\ parser.state = ST_TAGNAME
    /\ err = [msg |-> "Unexpected EOF", line |-> 2]

\* The tag event ev with the properties written between its own brackets.
OwnTag(ev) == [ev EXCEPT !.props = ev.written]

\* C14: after a load that started from the freshly initialised, empty store,
\* whether it succeeded or failed in the parse, the store is exactly the
\* sequence of the tags closed before the parse ended: one record per tag,
\* in the order of the text, each with that tag's name, properties and line.
C14_StoreIsClosedTags ==
    (LoadReturned /\ prev_load = "none") =>
        StoreHolds([k \in 1 .. Len(events) |-> OwnTag(events[k])])

\* Every string and the line of the record t are set: the name and the
\* prop_count property names and values are live copies, the line is a line
\* of the text.
Complete(t) ==
    /\ t.tag_name.st = "live"
    /\ t.line >= 1
    /\ \A i \in PropSlots :
          i < t.prop_count =>
              (t.prop_name[i].st = "live" /\ t.prop_value[i].st = "live")

\* C15: when parse_tag_callback fails on a tag event, the table being full
\* or a strdup failing, the failing tag is not added: the tag size is what
\* it was before the event (on a load from the empty store, the number of
\* earlier events), and every record below tag_size is complete.
C15_FailedTagNotAdded ==
    (LoadReturned /\ last_load \in {"full", "nomem"} /\ prev_load = "none") =>
        /\ tag_size = Len(events) - 1
        /\ \A i \in TagSlots : i < tag_size => Complete(tag[i])

\* The tokenizer is about to consume, in ST_PROPNAME, a character that is
\* neither a property name character nor a delimiter handled there
\* (whitespace or ']' before the name, '=' after it).
AtInvalidNameChar ==
    /\ pc = "parse"
    /\ parser.state = ST_PROPNAME
    /\ CharAt(top) # NUL
    /\ ~IsPropNameChar(CharAt(top))
    /\ ~(parser.len = 0 /\ (IsSpace(CharAt(top)) \/ CharAt(top) = RBRACKET))
    /\ ~(parser.len > 0 /\ CharAt(top) = EQUALS)

\* The step consumes one character and changes nothing of the tokenizer or
\* of the store; the parse goes on.
Skipped ==
    /\ pc' = "parse"
    /\ top' = top + 1
    /\ parser' = parser
    /\ tag_props' = tag_props
    /\ events' = events
    /\ tag' = tag
    /\ tag_size' = tag_size

\* The step returns failure from load_tag_file with the message msg at the
\* current line.
Fatal(msg) ==
    /\ pc' = "idle"
    /\ ret' = Returned("load_tag_file", 0)
    /\ err' = [msg |-> msg, line |-> parser.line]

RecoveredDocs ==
    {Insert(TagWithProps(1, NAME) \o TagText(NAME), 4, c) :
        c \in Alphabet \ {LETTER_N, EQUALS}}

AtValueSeek ==
    /\ pc = "parse"
    /\ parser.state = ST_PROPVALUE_QUOTE
    /\ CharAt(top) # NUL

\* C17: in ST_PROPVALUE_QUOTE every character other than the double quote is
\* skipped, with no error and with the state, the property name just read,
\* the property count and the collected properties unchanged (a newline is
\* counted); a double quote, and nothing else, leaves the state, for
\* ST_PROPVALUE_BODY with a value of length 0.
C17_SeekSkipsToQuote ==
    [][AtValueSeek =>
          /\ pc' = "parse"
          /\ top' = top + 1
          /\ err' = err
          /\ parser'.prop_name = parser.prop_name
          /\ parser'.prop_count = parser.prop_count
          /\ parser'.tag_name = parser.tag_name
          /\ tag_props' = tag_props
          /\ <<tag, tag_size, events>>' = <<tag, tag_size, events>>
          /\ IF CharAt(top) = QUOTE
             THEN parser'.state = ST_PROPVALUE_BODY /\ parser'.len = 0
             ELSE /\ parser'.state = ST_PROPVALUE_QUOTE
                  /\ parser'.len = parser.len
                  /\ parser'.line = parser.line
                          + (IF CharAt(top) = NEWLINE THEN 1 ELSE 0)]_vars

\* C17, witness: a character that is neither whitespace nor a quote has been
\* skipped after the '=', and the tokenizer still seeks the quote.
C17_SkippedBeforeQuote ==
    /\ pc = "parse"
    /\ parser.state = ST_PROPVALUE_QUOTE
    /\ top >= 2
    /\ CharAt(top - 2) = EQUALS
    /\ CharAt(top - 1) \in {LBRACKET, RBRACKET, LETTER_N, BACKSLASH, EQUALS}
    /\ CharAt(top) = QUOTE
    /\ err = NoError

\* No string of the record t is live.
Released(t) ==
    /\ t.tag_name.st # "live"
    /\ \A j \in PropSlots :
          t.prop_name[j].st # "live" /\ t.prop_value[j].st # "live"

\* C18: ownership across loads.  Over any sequence of init_tag,
\* load_tag_file and cleanup_tag calls every string of a record is released
\* exactly once, by the first reset after it was created: after a reset no
\* string of any record is left unreleased, no reset frees a string that was
\* freed before, and no reset indexes a property array outside its PROP_MAX
\* slots.
C18_ReleasedExactlyOnce ==
    /\ "double_free" \notin ub
    /\ "prop_index_out_of_range" \notin ub
    /\ ret.op \in {"cleanup_tag", "init_tag"} =>
          \A i \in TagSlots : Released(tag[i])

\* C19: buffer bounds.  For every document every write of the tokenizer into
\* tag_name, prop_name[k] and prop_val[k], the terminator included, is at an
\* index below the capacity of the buffer, and the slot k is below PROP_MAX.
C19_WritesInsideBuffers ==
    /\ "buffer_overflow" \notin ub
    /\ Len(parser.tag_name) <= TAG_NAME_MAX
    /\ \A k \in PropSlots :
          /\ Len(parser.prop_name[k]) <= PROP_NAME_MAX
          /\ Len(parser.prop_val[k]) <= PROP_VALUE_MAX
    /\ parser.state \in {ST_PROPVALUE_QUOTE, ST_PROPVALUE_BODY} =>
          parser.prop_count \in PropSlots

\* The program's state other than the cursor: the file name, the tag table,
\* the tag size and the tokenizer's buffers and locals.
NotCursor == <<cur_file, tag, tag_size, parser>>

\* A step in which the call op returned, the program running on.
Called(op) == pc = "idle" /\ pc' = "idle" /\ ret'.op = op

\* C20: separation of cursor and store.  move_to_next_tag changes the
\* cursor, by one, and nothing else; get_current_tag, get_tag_line and
\* get_tag_file_name change nothing; no step of the parse phase changes the
\* cursor; and every step that changes the cursor is a move_to_next_tag or
\* the reset to 0 of cleanup_tag (called by itself, by init_tag or by
\* load_tag_file).
C20_CursorApartFromStore ==
    [][/\ Called("move_to_next_tag") =>
              (cur_index' = cur_index + 1 /\ UNCHANGED NotCursor)
       /\ \A op \in {"get_current_tag", "get_tag_line", "get_tag_file_name"} :
              Called(op) => UNCHANGED <<cur_index, NotCursor>>
       /\ pc = "parse" => cur_index' = cur_index
       /\ cur_index' # cur_index =>
              \/ Called("move_to_next_tag")
              \/ /\ cur_index' = 0
                 /\ \/ Called("cleanup_tag")
                    \/ Called("init_tag")
                    \/ pc = "idle" /\ pc' \in {"parse", "aborted"}]_vars

\* C20, witness: the cursor has been moved to the end of a loaded store of
\* two records, which are still in place.
C20_MovedOverLoadedStore ==
    /\ ret.op = "move_to_next_tag"
    /\ last_load = "ok"
    /\ prev_load = "none"
    /\ cur_index = 2
    /\ tag_size = 2
    /\ StoreHolds(events)

====
